---- MODULE Spec2Model ----
(***************************************************************************)
(* UserFlow (lighthouse core/user-flow.js): the flow session state machine *)
(* with its start/end navigation handshake.  Every call of a public        *)
(* operation is an asynchronous task; a task runs without interruption     *)
(* from one await to the next, and tasks interleave at the awaits only.    *)
(***************************************************************************)
EXTENDS Integers, Sequences, FiniteSets, TLC

\* Number of public operations called on one session.
MaxCalls == 2

UNDEF == "undef"

\* stepFlags === undefined
Undefined ==
  [defined |-> FALSE, name |-> UNDEF, skipAboutBlank |-> UNDEF,
   disableStorageReset |-> UNDEF]

StepFlags(n, s, d) ==
  [defined |-> TRUE, name |-> n, skipAboutBlank |-> s, disableStorageReset |-> d]

\* The stepFlags arguments callers pass.
StepFlagsInputs ==
  { Undefined,
    StepFlags(UNDEF, "false", UNDEF),
    StepFlags("login", UNDEF, "false") }

VARIABLES
  gatherSteps,              \* this._gatherSteps
  gatherStepRunnerOptions,  \* this._gatherStepRunnerOptions: steps with options
  currentNavigation,        \* 0, or the startNavigation call the handle closes over
  currentTimespan,          \* NoTimespan, or {timespan, stepFlags}
  calls,                    \* the async tasks, in call order
  audit                     \* one call of auditGatherSteps: its arguments and locals

vars ==
  <<gatherSteps, gatherStepRunnerOptions, currentNavigation, currentTimespan, calls,
    audit>>

\* The fields of the session.
session ==
  <<gatherSteps, gatherStepRunnerOptions, currentNavigation, currentTimespan, calls>>

NoNavigation == 0

NoTimespan == [timespan |-> 0, stepFlags |-> Undefined]

CallIds == 1..Len(calls)

\* A task record.  pc is the position of the called async function, nav the
\* position of the navigate() it runs (navigate, startNavigation), gatherer the
\* phase of the external gatherer it invoked, setup and result the states of
\* navigationSetupPromise and navigationResultPromise, target the handle or
\* timespan an end operation works on, flags the flags handed to the gatherer,
\* callerFlags the caller's stepFlags object after the call, error the Error
\* thrown, begunAt the length of the step list when the call was made,
\* failedAt the moment the navigate() of the task failed: at its guards
\* ("check", or "checkNavigationActive" with a handle installed), before the
\* gatherer called the requestor ("setup"), after that and before the handle
\* was installed ("requested"), or with the handle installed ("installed").
NewCall(op, stepFlags) ==
  [op |-> op, stepFlags |-> stepFlags, callerFlags |-> stepFlags,
   flags |-> Undefined, pc |-> "called", nav |-> "none", gatherer |-> "none",
   setup |-> "none", result |-> "none", target |-> 0, error |-> "none",
   begunAt |-> Len(gatherSteps), failedAt |-> "none"]

\* _getNextNavigationFlags taking any earlier step for a navigation
GetNextNavigationFlagsAnyStep(stepFlags, steps) ==
  LET copy == [stepFlags EXCEPT !.defined = TRUE]
      withSkip ==
        IF copy.skipAboutBlank = UNDEF
          THEN [copy EXCEPT !.skipAboutBlank = "true"]
          ELSE copy
      newStepFlags ==
        IF Len(steps) > 0 /\ withSkip.disableStorageReset = UNDEF
          THEN [withSkip EXCEPT !.disableStorageReset = "true"]
          ELSE withSkip
  IN  [newStepFlags |-> newStepFlags, stepFlags |-> stepFlags]

\* _getNextNavigationFlags
GetNextNavigationFlags(stepFlags, steps) ==
  LET copy == [stepFlags EXCEPT !.defined = TRUE]
      withSkip ==
        IF copy.skipAboutBlank = UNDEF
          THEN [copy EXCEPT !.skipAboutBlank = "true"]
          ELSE copy
      isSubsequentNavigation ==
        \E i \in 1..Len(steps) : steps[i].gatherMode = "navigation"
      newStepFlags ==
        IF isSubsequentNavigation /\ withSkip.disableStorageReset = UNDEF
          THEN [withSkip EXCEPT !.disableStorageReset = "true"]
          ELSE withSkip
  IN  [newStepFlags |-> newStepFlags, stepFlags |-> stepFlags]

\* What an external gatherer returns: artifacts with their gather mode, and
\* runner options.
GatherResult(mode, c) ==
  [gatherMode |-> mode, call |-> c, runnerOptions |-> TRUE]

\* _addGatherStep with unshift for push
AddGatherStepUnshift(steps, gatherResult, stepFlags) ==
  <<[gatherMode |-> gatherResult.gatherMode, call |-> gatherResult.call,
     stepFlags |-> stepFlags]>> \o steps

\* _addGatherStep: the push
AddGatherStep(steps, gatherResult, stepFlags) ==
  Append(steps,
         [gatherMode |-> gatherResult.gatherMode, call |-> gatherResult.call,
          stepFlags |-> stepFlags])

\* _addGatherStep without the WeakMap set
SetRunnerOptionsNone(registry, steps, gatherResult) ==
  registry

\* _addGatherStep: the WeakMap set, keyed by the pushed step
SetRunnerOptions(registry, steps, gatherResult) ==
  IF gatherResult.runnerOptions THEN registry \cup {Len(steps) + 1} ELSE registry

\* The guards of navigate without the one on currentNavigation
NavigateCheckTimespanOnly(nav, ts) ==
  IF ts # NoTimespan THEN "Timespan already in progress" ELSE "ok"

\* The guards at the head of navigate
NavigateCheck(nav, ts) ==
  IF ts # NoTimespan THEN "Timespan already in progress"
  ELSE IF nav # NoNavigation THEN "Navigation already in progress"
  ELSE "ok"

\* The guards of startTimespan without the one on currentTimespan
StartTimespanCheckNavigationOnly(nav, ts) ==
  IF nav # NoNavigation THEN "Navigation already in progress" ELSE "ok"

\* The guards at the head of startTimespan
StartTimespanCheck(nav, ts) ==
  IF ts # NoTimespan THEN "Timespan already in progress"
  ELSE IF nav # NoNavigation THEN "Navigation already in progress"
  ELSE "ok"

\* The guards at the head of snapshot
SnapshotCheck(nav, ts) ==
  IF ts # NoTimespan THEN "Timespan already in progress"
  ELSE IF nav # NoNavigation THEN "Navigation already in progress"
  ELSE "ok"

\* The guards at the head of endNavigation
EndNavigationCheck(nav, ts) ==
  IF ts # NoTimespan THEN "Timespan already in progress"
  ELSE IF nav = NoNavigation THEN "No navigation in progress"
  ELSE "ok"

\* The guards at the head of endTimespan
EndTimespanCheck(nav, ts) ==
  IF ts = NoTimespan THEN "No timespan in progress"
  ELSE IF nav # NoNavigation THEN "Navigation already in progress"
  ELSE "ok"

\* Number of gather steps handed to auditGatherSteps.
MaxSteps == 2

\* artifacts.URL.finalDisplayedUrl, with the parts new URL() finds in it
Urls ==
  { [href |-> "https://example.com/", hostname |-> "example.com",
     pathname |-> "/", search |-> ""],
    [href |-> "https://shop.test/cart?item=1#top", hostname |-> "shop.test",
     pathname |-> "/cart", search |-> "?item=1"] }

GatherModes == {"navigation", "timespan", "snapshot"}

\* The stepFlags stored in the steps handed to auditGatherSteps.
AuditStepFlags ==
  { Undefined,
    StepFlags("", "true", UNDEF),
    StepFlags("login", "true", "true") }

\* LH.UserFlow.GatherStep: artifacts (gather mode, URL) and stepFlags
GatherStepInputs ==
  [gatherMode : GatherModes, url : Urls, stepFlags : AuditStepFlags]

\* options.name and options.config
AuditNames == {UNDEF, "Checkout flow"}
AuditConfigs == {UNDEF, "desktop"}

\* shortenUrl
ShortenUrl(url) == url.hostname \o url.pathname

\* getDefaultStepName
GetDefaultStepName(gatherStep) ==
  LET shortUrl == ShortenUrl(gatherStep.url)
  IN  IF gatherStep.gatherMode = "navigation"
        THEN "Navigation report (" \o shortUrl \o ")"
      ELSE IF gatherStep.gatherMode = "timespan"
        THEN "Timespan report (" \o shortUrl \o ")"
      ELSE IF gatherStep.gatherMode = "snapshot"
        THEN "Snapshot report (" \o shortUrl \o ")"
      ELSE UNDEF

\* The step name without the stepFlags name
StepNameDefaultOnly(gatherStep) ==
  GetDefaultStepName(gatherStep)

\* stepFlags?.name || getDefaultStepName(artifacts)
StepName(gatherStep) ==
  IF gatherStep.stepFlags.name \notin {UNDEF, ""}
    THEN gatherStep.stepFlags.name
    ELSE GetDefaultStepName(gatherStep)

\* Any lookup finds options
RunnerOptionsGetAlways(registry, i) ==
  TRUE

\* WeakMap get: are runner options recorded for the i-th step
RunnerOptionsGet(registry, i) ==
  i \in registry

\* options.gatherStepRunnerOptions?.get(gatherStep)
RunnerOptionsLookup(options, i) ==
  IF options.gatherStepRunnerOptions.defined
    THEN RunnerOptionsGet(options.gatherStepRunnerOptions.steps, i)
    ELSE FALSE

\* The options createFlowResult hands to auditGatherSteps
CreateFlowResultOptions(name, config, registry) ==
  [name |-> name, config |-> config,
   gatherStepRunnerOptions |-> [defined |-> TRUE, steps |-> registry]]

\* options.name || `User flow (${url.hostname})`
FlowName(gatherSteps_, options) ==
  IF options.name \notin {UNDEF, ""}
    THEN options.name
    ELSE "User flow (" \o gatherSteps_[1].url.hostname \o ")"

\* No auditGatherSteps call made.
NoAudit ==
  [gatherSteps |-> <<>>,
   options |-> [name |-> UNDEF, config |-> UNDEF,
                gatherStepRunnerOptions |-> [defined |-> FALSE, steps |-> {}]],
   pc |-> "none", i |-> 0, name |-> UNDEF, runnerOptions |-> UNDEF,
   steps |-> <<>>, configCalls |-> <<>>, scored |-> <<>>, results |-> <<>>,
   error |-> UNDEF,
   flowName |-> UNDEF]

\* The loop of auditGatherSteps from the head of its i-th iteration to the
\* next await, and what follows the loop.
AuditLoop(a, i) ==
  IF i > Len(a.gatherSteps)
    THEN IF Len(a.gatherSteps) = 0
           THEN [a EXCEPT !.pc = "rejected", !.i = i, !.error = "TypeError"]
           ELSE [a EXCEPT !.pc = "resolved", !.i = i,
                          !.flowName = FlowName(a.gatherSteps, a.options)]
    ELSE LET gatherStep == a.gatherSteps[i]
             named == [a EXCEPT !.i = i, !.name = StepName(gatherStep)]
         IN  IF RunnerOptionsLookup(a.options, i)
               THEN [named EXCEPT !.pc = "audit", !.runnerOptions = "recorded",
                                  !.scored = Append(@, i)]
               ELSE [named EXCEPT !.pc = "initializeConfig",
                                  !.runnerOptions = UNDEF,
                                  !.configCalls =
                                     Append(@, [step |-> i,
                                                gatherMode |-> gatherStep.gatherMode,
                                                configJson |-> a.options.config,
                                                stepFlags |-> gatherStep.stepFlags])]

\* auditGatherSteps entering the loop whatever the length of the list
AuditBeginNoCheck(a) ==
  AuditLoop(a, 1)

\* auditGatherSteps up to its first await
AuditBegin(a) ==
  IF Len(a.gatherSteps) = 0
    THEN [a EXCEPT !.pc = "rejected",
                   !.error = "Need at least one step before getting the result"]
    ELSE AuditLoop(a, 1)

Init ==
  /\ gatherSteps = <<>>
  /\ gatherStepRunnerOptions = {}
  /\ currentNavigation = NoNavigation
  /\ currentTimespan = NoTimespan
  /\ calls = <<>>
  /\ audit = NoAudit

\* navigate() up to its await: the guards, the flags, the gatherer invoked.
NavigateBegin(call) ==
  LET check == NavigateCheck(currentNavigation, currentTimespan)
      next == GetNextNavigationFlags(call.stepFlags, gatherSteps)
  IN  IF check # "ok"
        THEN [call EXCEPT !.nav = "threw", !.error = check,
                          !.failedAt = IF currentNavigation # NoNavigation
                                         THEN "checkNavigationActive" ELSE "check"]
        ELSE [call EXCEPT !.nav = "gather", !.gatherer = "setup",
                          !.flags = next.newStepFlags,
                          !.callerFlags = next.stepFlags]

\* flow.navigate(requestor, stepFlags)
NavigateCall(stepFlags) ==
  /\ LET begun == NavigateBegin(NewCall("navigate", stepFlags))
     IN  calls' = Append(calls,
           [begun EXCEPT !.pc = IF begun.nav = "threw" THEN "rejected" ELSE "gather"])
  /\ UNCHANGED <<gatherSteps, gatherStepRunnerOptions, currentNavigation, currentTimespan>>
  /\ UNCHANGED audit

\* flow.navigate, within the bound on calls
Navigate(stepFlags) == Len(calls) < MaxCalls /\ NavigateCall(stepFlags)

\* flow.startNavigation(stepOptions) up to await navigationSetupPromise
StartNavigationCall(stepFlags) ==
  /\ LET begun == NavigateBegin(NewCall("startNavigation", stepFlags))
     IN  calls' = Append(calls,
           [begun EXCEPT !.pc = "awaitSetup", !.setup = "pending",
                         !.result = "pending"])
  /\ UNCHANGED <<gatherSteps, gatherStepRunnerOptions, currentNavigation, currentTimespan>>
  /\ UNCHANGED audit

\* flow.startNavigation, within the bound on calls
StartNavigation(stepFlags) == Len(calls) < MaxCalls /\ StartNavigationCall(stepFlags)

\* The navigation gatherer of a handshake calls the requestor, which resolves
\* navigationSetupPromise with continueNavigation.
RequestorInvoked(c) ==
  /\ c \in CallIds
  /\ calls[c].op = "startNavigation"
  /\ calls[c].gatherer = "setup"
  /\ calls[c].nav = "gather"
  /\ calls' = [calls EXCEPT ![c].gatherer = "waiting",
                            ![c].setup = IF @ = "pending" THEN "resolved" ELSE @]
  /\ UNCHANGED <<gatherSteps, gatherStepRunnerOptions, currentNavigation, currentTimespan>>
  /\ UNCHANGED audit

\* navigationGather resolves and navigate() resumes: the step is added.  The
\* navigation of a handshake completes only once it was continued.
NavigateGathered(c) ==
  /\ c \in CallIds
  /\ calls[c].nav = "gather"
  /\ \/ calls[c].op = "navigate" /\ calls[c].gatherer = "setup"
     \/ calls[c].op = "startNavigation" /\ calls[c].gatherer = "continued"
  /\ LET gatherResult == GatherResult("navigation", c)
     IN  /\ gatherSteps' = AddGatherStep(gatherSteps, gatherResult, calls[c].flags)
         /\ gatherStepRunnerOptions' =
              SetRunnerOptions(gatherStepRunnerOptions, gatherSteps, gatherResult)
  /\ calls' = [calls EXCEPT ![c].nav = "resolved", ![c].gatherer = "returned",
                            ![c].pc = IF calls[c].op = "navigate" THEN "resolved" ELSE @,
                            ![c].result = IF calls[c].op = "startNavigation"
                                            THEN "resolved" ELSE @]
  /\ UNCHANGED <<currentNavigation, currentTimespan>>
  /\ UNCHANGED audit

\* navigationGather rejects, in any phase, and navigate() rethrows.
NavigateGatherFailed(c) ==
  /\ c \in CallIds
  /\ calls[c].nav = "gather"
  /\ calls' = [calls EXCEPT ![c].nav = "threw", ![c].gatherer = "failed",
                            ![c].error = "GatherFailure",
                            ![c].failedAt =
                              IF calls[c].gatherer = "setup" THEN "setup"
                              ELSE IF calls[c].pc = "awaitSetup" THEN "requested"
                              ELSE "installed",
                            ![c].pc = IF calls[c].op = "navigate" THEN "rejected" ELSE @]
  /\ UNCHANGED <<gatherSteps, gatherStepRunnerOptions, currentNavigation, currentTimespan>>
  /\ UNCHANGED audit

\* The decision of the catch handler of startNavigation
CatchRethrows(nav) == nav # NoNavigation

\* .catch(err => ...) on the navigate() of a handshake
StartNavigationCatch(c) ==
  /\ c \in CallIds
  /\ calls[c].op = "startNavigation"
  /\ calls[c].nav = "threw"
  /\ calls[c].result = "pending"
  /\ calls' =
       IF CatchRethrows(currentNavigation)
         THEN [calls EXCEPT ![c].result = "rejected"]
         ELSE [calls EXCEPT ![c].result = "resolved",
                            ![c].setup = IF @ = "pending" THEN "rejected" ELSE @]
  /\ UNCHANGED <<gatherSteps, gatherStepRunnerOptions, currentNavigation, currentTimespan>>
  /\ UNCHANGED audit

\* startNavigation installing the handle without awaiting
\* navigationSetupPromise
StartNavigationResumeNoAwait(c) ==
  /\ c \in CallIds
  /\ calls[c].op = "startNavigation"
  /\ calls[c].pc = "awaitSetup"
  /\ currentNavigation' = c
  /\ calls' = [calls EXCEPT ![c].pc = "resolved"]
  /\ UNCHANGED <<gatherSteps, gatherStepRunnerOptions, currentTimespan>>
  /\ UNCHANGED audit

\* startNavigation after await navigationSetupPromise
StartNavigationResume(c) ==
  /\ c \in CallIds
  /\ calls[c].op = "startNavigation"
  /\ calls[c].pc = "awaitSetup"
  /\ calls[c].setup \in {"resolved", "rejected"}
  /\ IF calls[c].setup = "resolved"
       THEN /\ currentNavigation' = c
            /\ calls' = [calls EXCEPT ![c].pc = "resolved"]
       ELSE /\ currentNavigation' = currentNavigation
            /\ calls' = [calls EXCEPT ![c].pc = "rejected"]
  /\ UNCHANGED <<gatherSteps, gatherStepRunnerOptions, currentTimespan>>
  /\ UNCHANGED audit

\* flow.endNavigation() up to its await: continueNavigation() is called.
EndNavigationCall ==
  /\ LET check == EndNavigationCheck(currentNavigation, currentTimespan)
         call == NewCall("endNavigation", Undefined)
         h == currentNavigation
     IN  IF check # "ok"
           THEN calls' = Append(calls, [call EXCEPT !.pc = "rejected", !.error = check])
           ELSE calls' = Append(
                  [calls EXCEPT ![h].gatherer = IF @ = "waiting" THEN "continued" ELSE @],
                  [call EXCEPT !.pc = "awaitResult", !.target = h])
  /\ UNCHANGED <<gatherSteps, gatherStepRunnerOptions, currentNavigation, currentTimespan>>
  /\ UNCHANGED audit

\* flow.endNavigation, within the bound on calls
EndNavigation == Len(calls) < MaxCalls /\ EndNavigationCall

\* What endNavigation leaves in currentNavigation when the awaited result
\* promise settles.
EndNavigationSlot(nav, outcome) ==
  IF outcome = "resolved" THEN NoNavigation ELSE nav

\* endNavigation after await continueAndAwaitResult()
EndNavigationResume(c) ==
  /\ c \in CallIds
  /\ calls[c].op = "endNavigation"
  /\ calls[c].pc = "awaitResult"
  /\ calls[calls[c].target].result \in {"resolved", "rejected"}
  /\ LET outcome == calls[calls[c].target].result
     IN  /\ currentNavigation' = EndNavigationSlot(currentNavigation, outcome)
         /\ calls' = [calls EXCEPT ![c].pc = outcome,
                        ![c].error = IF outcome = "rejected"
                                       THEN calls[calls[c].target].error ELSE @]
  /\ UNCHANGED <<gatherSteps, gatherStepRunnerOptions, currentTimespan>>
  /\ UNCHANGED audit

\* flow.startTimespan(stepFlags) up to its await
StartTimespanCall(stepFlags) ==
  /\ LET check == StartTimespanCheck(currentNavigation, currentTimespan)
         call == NewCall("startTimespan", stepFlags)
     IN  calls' = Append(calls,
           IF check # "ok"
             THEN [call EXCEPT !.pc = "rejected", !.error = check]
             ELSE [call EXCEPT !.pc = "gather", !.gatherer = "setup",
                               !.flags = stepFlags])
  /\ UNCHANGED <<gatherSteps, gatherStepRunnerOptions, currentNavigation, currentTimespan>>
  /\ UNCHANGED audit

\* flow.startTimespan, within the bound on calls
StartTimespan(stepFlags) == Len(calls) < MaxCalls /\ StartTimespanCall(stepFlags)

\* startTimespanGather resolves: the timespan is stored.
StartTimespanGathered(c) ==
  /\ c \in CallIds
  /\ calls[c].op = "startTimespan"
  /\ calls[c].pc = "gather"
  /\ currentTimespan' = [timespan |-> c, stepFlags |-> calls[c].stepFlags]
  /\ calls' = [calls EXCEPT ![c].pc = "resolved", ![c].gatherer = "returned"]
  /\ UNCHANGED <<gatherSteps, gatherStepRunnerOptions, currentNavigation>>
  /\ UNCHANGED audit

\* startTimespanGather rejects.
StartTimespanGatherFailed(c) ==
  /\ c \in CallIds
  /\ calls[c].op = "startTimespan"
  /\ calls[c].pc = "gather"
  /\ calls' = [calls EXCEPT ![c].pc = "rejected", ![c].gatherer = "failed",
                            ![c].error = "GatherFailure"]
  /\ UNCHANGED <<gatherSteps, gatherStepRunnerOptions, currentNavigation, currentTimespan>>
  /\ UNCHANGED audit

\* flow.endTimespan() up to its await
EndTimespanCall ==
  /\ LET check == EndTimespanCheck(currentNavigation, currentTimespan)
         call == NewCall("endTimespan", Undefined)
     IN  calls' = Append(calls,
           IF check # "ok"
             THEN [call EXCEPT !.pc = "rejected", !.error = check]
             ELSE [call EXCEPT !.pc = "gather", !.gatherer = "setup",
                               !.target = currentTimespan.timespan,
                               !.flags = currentTimespan.stepFlags])
  /\ UNCHANGED <<gatherSteps, gatherStepRunnerOptions, currentNavigation, currentTimespan>>
  /\ UNCHANGED audit

\* flow.endTimespan, within the bound on calls
EndTimespan == Len(calls) < MaxCalls /\ EndTimespanCall

\* endTimespan clearing the slot and leaving the step to be added later
EndTimespanGatheredClearOnly(c) ==
  /\ c \in CallIds
  /\ calls[c].op = "endTimespan"
  /\ calls[c].pc = "gather"
  /\ currentTimespan' = NoTimespan
  /\ calls' = [calls EXCEPT ![c].pc = "resolved", ![c].gatherer = "returned"]
  /\ UNCHANGED <<gatherSteps, gatherStepRunnerOptions, currentNavigation>>
  /\ UNCHANGED audit

\* endTimespanGather resolves: the slot is cleared and the step added.
EndTimespanGathered(c) ==
  /\ c \in CallIds
  /\ calls[c].op = "endTimespan"
  /\ calls[c].pc = "gather"
  /\ LET gatherResult == GatherResult("timespan", calls[c].target)
     IN  /\ currentTimespan' = NoTimespan
         /\ gatherSteps' = AddGatherStep(gatherSteps, gatherResult, calls[c].flags)
         /\ gatherStepRunnerOptions' =
              SetRunnerOptions(gatherStepRunnerOptions, gatherSteps, gatherResult)
  /\ calls' = [calls EXCEPT ![c].pc = "resolved", ![c].gatherer = "returned"]
  /\ UNCHANGED currentNavigation
  /\ UNCHANGED audit

\* endTimespanGather rejects.
EndTimespanGatherFailed(c) ==
  /\ c \in CallIds
  /\ calls[c].op = "endTimespan"
  /\ calls[c].pc = "gather"
  /\ calls' = [calls EXCEPT ![c].pc = "rejected", ![c].gatherer = "failed",
                            ![c].error = "GatherFailure"]
  /\ UNCHANGED <<gatherSteps, gatherStepRunnerOptions, currentNavigation, currentTimespan>>
  /\ UNCHANGED audit

\* flow.snapshot(stepFlags) up to its await
SnapshotCall(stepFlags) ==
  /\ LET check == SnapshotCheck(currentNavigation, currentTimespan)
         call == NewCall("snapshot", stepFlags)
     IN  calls' = Append(calls,
           IF check # "ok"
             THEN [call EXCEPT !.pc = "rejected", !.error = check]
             ELSE [call EXCEPT !.pc = "gather", !.gatherer = "setup",
                               !.flags = stepFlags])
  /\ UNCHANGED <<gatherSteps, gatherStepRunnerOptions, currentNavigation, currentTimespan>>
  /\ UNCHANGED audit

\* flow.snapshot, within the bound on calls
Snapshot(stepFlags) == Len(calls) < MaxCalls /\ SnapshotCall(stepFlags)

\* snapshot completing as endTimespan does, clearing currentTimespan
SnapshotGatheredClearsTimespan(c) ==
  /\ c \in CallIds
  /\ calls[c].op = "snapshot"
  /\ calls[c].pc = "gather"
  /\ LET gatherResult == [gatherMode |-> "snapshot", call |-> c, runnerOptions |-> TRUE]
     IN  /\ currentTimespan' = NoTimespan
         /\ gatherSteps' = Append(gatherSteps,
              [gatherMode |-> "snapshot", call |-> c, stepFlags |-> calls[c].stepFlags])
         /\ gatherStepRunnerOptions' = gatherStepRunnerOptions \cup {Len(gatherSteps) + 1}
  /\ calls' = [calls EXCEPT ![c].pc = "resolved", ![c].gatherer = "returned"]
  /\ UNCHANGED currentNavigation
  /\ UNCHANGED audit

\* snapshotGather resolves: the step is added.
SnapshotGathered(c) ==
  /\ c \in CallIds
  /\ calls[c].op = "snapshot"
  /\ calls[c].pc = "gather"
  /\ LET gatherResult == GatherResult("snapshot", c)
     IN  /\ gatherSteps' = AddGatherStep(gatherSteps, gatherResult, calls[c].stepFlags)
         /\ gatherStepRunnerOptions' =
              SetRunnerOptions(gatherStepRunnerOptions, gatherSteps, gatherResult)
  /\ calls' = [calls EXCEPT ![c].pc = "resolved", ![c].gatherer = "returned"]
  /\ UNCHANGED <<currentNavigation, currentTimespan>>
  /\ UNCHANGED audit

\* snapshotGather rejects.
SnapshotGatherFailed(c) ==
  /\ c \in CallIds
  /\ calls[c].op = "snapshot"
  /\ calls[c].pc = "gather"
  /\ calls' = [calls EXCEPT ![c].pc = "rejected", ![c].gatherer = "failed",
                            ![c].error = "GatherFailure"]
  /\ UNCHANGED <<gatherSteps, gatherStepRunnerOptions, currentNavigation, currentTimespan>>
  /\ UNCHANGED audit

Next ==
  \/ \E f \in StepFlagsInputs : Navigate(f)
  \/ \E f \in StepFlagsInputs : StartNavigation(f)
  \/ \E c \in 1..MaxCalls : RequestorInvoked(c)
  \/ \E c \in 1..MaxCalls : NavigateGathered(c)
  \/ \E c \in 1..MaxCalls : NavigateGatherFailed(c)
  \/ \E c \in 1..MaxCalls : StartNavigationCatch(c)
  \/ \E c \in 1..MaxCalls : StartNavigationResume(c)
  \/ EndNavigation
  \/ \E c \in 1..MaxCalls : EndNavigationResume(c)
  \/ \E f \in StepFlagsInputs : StartTimespan(f)
  \/ \E c \in 1..MaxCalls : StartTimespanGathered(c)
  \/ \E c \in 1..MaxCalls : StartTimespanGatherFailed(c)
  \/ EndTimespan
  \/ \E c \in 1..MaxCalls : EndTimespanGathered(c)
  \/ \E c \in 1..MaxCalls : EndTimespanGatherFailed(c)
  \/ \E f \in StepFlagsInputs : Snapshot(f)
  \/ \E c \in 1..MaxCalls : SnapshotGathered(c)
  \/ \E c \in 1..MaxCalls : SnapshotGatherFailed(c)

Spec == Init /\ [][Next]_vars

\* The same session with one more call, for the interleavings of three
\* operations.
MaxCallsRace == 3

NextRace ==
  \/ \E f \in StepFlagsInputs : Len(calls) < MaxCallsRace /\ NavigateCall(f)
  \/ \E f \in StepFlagsInputs : Len(calls) < MaxCallsRace /\ StartNavigationCall(f)
  \/ \E c \in 1..MaxCallsRace : RequestorInvoked(c)
  \/ \E c \in 1..MaxCallsRace : NavigateGathered(c)
  \/ \E c \in 1..MaxCallsRace : NavigateGatherFailed(c)
  \/ \E c \in 1..MaxCallsRace : StartNavigationCatch(c)
  \/ \E c \in 1..MaxCallsRace : StartNavigationResume(c)
  \/ Len(calls) < MaxCallsRace /\ EndNavigationCall
  \/ \E c \in 1..MaxCallsRace : EndNavigationResume(c)
  \/ \E f \in StepFlagsInputs : Len(calls) < MaxCallsRace /\ StartTimespanCall(f)
  \/ \E c \in 1..MaxCallsRace : StartTimespanGathered(c)
  \/ \E c \in 1..MaxCallsRace : StartTimespanGatherFailed(c)
  \/ Len(calls) < MaxCallsRace /\ EndTimespanCall
  \/ \E c \in 1..MaxCallsRace : EndTimespanGathered(c)
  \/ \E c \in 1..MaxCallsRace : EndTimespanGatherFailed(c)
  \/ \E f \in StepFlagsInputs : Len(calls) < MaxCallsRace /\ SnapshotCall(f)
  \/ \E c \in 1..MaxCallsRace : SnapshotGathered(c)
  \/ \E c \in 1..MaxCallsRace : SnapshotGatherFailed(c)

SpecRace == Init /\ [][NextRace]_vars

\* auditGatherSteps(gatherSteps, options) is called with a list of at most
\* MaxSteps steps, options recorded for any of them or no registry at all.
InitAudit ==
  /\ gatherSteps = <<>>
  /\ gatherStepRunnerOptions = {}
  /\ currentNavigation = NoNavigation
  /\ currentTimespan = NoTimespan
  /\ calls = <<>>
  /\ \E n \in 0..MaxSteps :
       \E list \in [1..n -> GatherStepInputs] :
         \E name \in AuditNames, config \in AuditConfigs :
           \E registry \in {[defined |-> FALSE, steps |-> {}]}
                           \cup {[defined |-> TRUE, steps |-> r] : r \in SUBSET (1..n)} :
             audit = [NoAudit EXCEPT
                        !.gatherSteps = list,
                        !.options = [name |-> name, config |-> config,
                                     gatherStepRunnerOptions |-> registry],
                        !.pc = "called"]

\* auditGatherSteps runs up to its first await.
AuditGatherStepsCall ==
  /\ audit.pc = "called"
  /\ audit' = AuditBegin(audit)
  /\ UNCHANGED session

\* initializeConfig resolves: Runner.audit is called with the new options.
InitializeConfigResolved ==
  /\ audit.pc = "initializeConfig"
  /\ audit' = [audit EXCEPT !.pc = "audit", !.runnerOptions = "initialized",
                            !.scored = Append(@, audit.i)]
  /\ UNCHANGED session

\* initializeConfig rejects.
InitializeConfigRejected ==
  /\ audit.pc = "initializeConfig"
  /\ audit' = [audit EXCEPT !.pc = "rejected", !.error = "initializeConfig"]
  /\ UNCHANGED session

\* Runner.audit returns a result: it is pushed and the loop goes on.
RunnerAuditResult ==
  /\ audit.pc = "audit"
  /\ audit' = AuditLoop([audit EXCEPT !.results = Append(@, "lhr"),
                                      !.steps =
                                        Append(@, [lhr |-> [step |-> audit.i],
                                                   name |-> audit.name])],
                        audit.i + 1)
  /\ UNCHANGED session

\* Runner.audit returns no result and the loop goes on
RunnerAuditNoResultSkips ==
  /\ audit.pc = "audit"
  /\ audit' = AuditLoop([audit EXCEPT !.results = Append(@, "none")], audit.i + 1)
  /\ UNCHANGED session

\* Runner.audit returns no result.
RunnerAuditNoResult ==
  /\ audit.pc = "audit"
  /\ audit' = [audit EXCEPT !.pc = "rejected", !.results = Append(@, "none"),
                            !.error = "Step \"" \o audit.name
                                        \o "\" did not return a result"]
  /\ UNCHANGED session

\* Runner.audit rejects.
RunnerAuditRejected ==
  /\ audit.pc = "audit"
  /\ audit' = [audit EXCEPT !.pc = "rejected", !.results = Append(@, "threw"),
                            !.error = "Runner.audit"]
  /\ UNCHANGED session

NextAudit ==
  \/ AuditGatherStepsCall
  \/ InitializeConfigResolved
  \/ InitializeConfigRejected
  \/ RunnerAuditResult
  \/ RunnerAuditNoResult
  \/ RunnerAuditRejected

SpecAudit == InitAudit /\ [][NextAudit]_vars

----------------------------------------------------------------------------
\* Vocabulary of the properties

NavigationOps == {"navigate", "startNavigation"}

PreconditionErrors ==
  { "Timespan already in progress", "Navigation already in progress",
    "No navigation in progress", "No timespan in progress" }

\* The call made by this step, if it is the call of an operation.
IsCall == Len(calls') = Len(calls) + 1

\* The precondition of operation op is violated by the slots as they are.
PreconditionViolated(op) ==
  CASE op \in {"navigate", "startTimespan", "snapshot"} ->
         currentTimespan # NoTimespan \/ currentNavigation # NoNavigation
    [] op = "endNavigation" ->
         currentTimespan # NoTimespan \/ currentNavigation = NoNavigation
    [] op = "endTimespan" ->
         currentTimespan = NoTimespan \/ currentNavigation # NoNavigation
    [] OTHER -> FALSE

\* The timespan started by call c has been ended and its step added.
TimespanEnded(c) ==
  \E e \in CallIds :
    calls[e].op = "endTimespan" /\ calls[e].target = c /\ calls[e].pc = "resolved"

\* The gather step begun by call c is in progress.
StepInProgress(c) ==
  \/ calls[c].op \in NavigationOps /\ calls[c].nav = "gather"
  \/ calls[c].op = "snapshot" /\ calls[c].pc = "gather"
  \/ /\ calls[c].op = "startTimespan"
     /\ \/ calls[c].pc = "gather"
        \/ calls[c].pc = "resolved" /\ ~TimespanEnded(c)

StepsOf(c) == {i \in 1..Len(gatherSteps) : gatherSteps[i].call = c}

IsPrefix(s, t) == Len(s) <= Len(t) /\ SubSeq(t, 1, Len(s)) = s

----------------------------------------------------------------------------
\* C1: in every reachable state, currentNavigation and currentTimespan are
\* never both non-null.
C1_AtMostOneSlotSet ==
  ~(currentNavigation # NoNavigation /\ currentTimespan # NoTimespan)

\* C2: gather steps never overlap: at most one step is in progress (a
\* navigation while navigationGather runs, a timespan from startTimespanGather
\* until endTimespanGather completed, a snapshot while snapshotGather runs).
C2_NoOverlappingSteps ==
  Cardinality({c \in CallIds : StepInProgress(c)}) <= 1

\* C3: navigate, startTimespan, snapshot, endNavigation or endTimespan called
\* with its precondition violated rejects at once, invokes or continues no
\* gatherer, appends no step and leaves both slots unchanged.
C3_ViolatedPreconditionRejects ==
  [][ (IsCall /\ PreconditionViolated(calls'[Len(calls')].op)) =>
        /\ calls'[Len(calls')].pc = "rejected"
        /\ calls'[Len(calls')].error \in PreconditionErrors
        /\ calls'[Len(calls')].gatherer = "none"
        /\ \A c \in CallIds : calls'[c] = calls[c]
        /\ gatherSteps' = gatherSteps
        /\ currentNavigation' = currentNavigation
        /\ currentTimespan' = currentTimespan ]_vars

\* With a handle installed, an endTimespan rejected for its missing slot,
\* having invoked no gatherer.
C3_Witness ==
  /\ currentNavigation # NoNavigation
  /\ \E c \in CallIds :
       /\ calls[c].op = "endTimespan"
       /\ calls[c].pc = "rejected"
       /\ calls[c].error = "No timespan in progress"
       /\ calls[c].gatherer = "none"

\* C4: a startNavigation whose navigate() threw at its guards (a timespan or a
\* navigation active) rejects: once the failure has been handled, the
\* rejection has gone to navigationSetupPromise, which startNavigation awaits.
C4_StartNavigationRejects ==
  \A c \in CallIds :
    ( /\ calls[c].op = "startNavigation"
      /\ calls[c].failedAt \in {"check", "checkNavigationActive"}
      /\ calls[c].result # "pending" )
    => calls[c].setup = "rejected"

\* C5: an endNavigation rejected by a navigate() that failed with the handle
\* installed leaves currentNavigation cleared.
C5_RejectedEndNavigationClears ==
  [][ \A e \in CallIds :
        ( /\ calls[e].op = "endNavigation"
          /\ calls[e].pc = "awaitResult"
          /\ calls'[e].pc = "rejected"
          /\ calls[calls[e].target].failedAt = "installed" )
        => currentNavigation' = NoNavigation ]_vars

\* C6: when navigate() of a handshake fails before the gatherer called the
\* requestor (at its guards with no navigation active, or in the gatherer's
\* setup), startNavigation rejects with the failure, never installs a handle
\* and no step of it is added.
C6_EarlyFailureRejectsStart ==
  \A c \in CallIds :
    ( /\ calls[c].op = "startNavigation"
      /\ calls[c].failedAt \in {"check", "setup"}
      /\ calls[c].result # "pending" )
    => /\ calls[c].setup = "rejected"
       /\ calls[c].pc \in {"awaitSetup", "rejected"}
       /\ currentNavigation # c
       /\ StepsOf(c) = {}

\* C7: a handle is installed, and startNavigation returns, only after the
\* gatherer called the requestor; and the gatherer's navigation is continued
\* only by an endNavigation on that handle.
C7_InstalledOnlyWhenWaiting ==
  /\ \A c \in CallIds :
       (calls[c].op = "startNavigation" /\ calls[c].pc = "resolved") =>
         /\ calls[c].gatherer \in {"waiting", "continued", "returned", "failed"}
         /\ calls[c].failedAt \in {"none", "requested", "installed"}
         /\ calls[c].setup = "resolved"
  /\ currentNavigation # NoNavigation =>
       /\ currentNavigation \in CallIds
       /\ calls[currentNavigation].op = "startNavigation"
       /\ calls[currentNavigation].pc = "resolved"
  /\ \A c \in CallIds :
       (calls[c].op = "startNavigation"
          /\ calls[c].gatherer \in {"continued", "returned"}) =>
         \E e \in CallIds : calls[e].op = "endNavigation" /\ calls[e].target = c

\* A handshake carried through: handle installed, continued by endNavigation,
\* step added.
C7_Witness ==
  \E c \in CallIds :
    /\ calls[c].op = "startNavigation"
    /\ calls[c].pc = "resolved"
    /\ calls[c].gatherer = "returned"
    /\ StepsOf(c) # {}

\* The flags _getNextNavigationFlags owes a navigation begun with stepFlags
\* when the step list held `before` steps.
ExpectedNavigationFlags(stepFlags, before) ==
  [defined |-> TRUE,
   name |-> stepFlags.name,
   skipAboutBlank |->
     IF stepFlags.skipAboutBlank # UNDEF THEN stepFlags.skipAboutBlank ELSE "true",
   disableStorageReset |->
     IF stepFlags.disableStorageReset # UNDEF THEN stepFlags.disableStorageReset
     ELSE IF \E i \in 1..before : gatherSteps[i].gatherMode = "navigation"
       THEN "true" ELSE UNDEF]

\* C8: a navigation's gatherer gets, and its step stores, skipAboutBlank = the
\* caller's value else true, disableStorageReset = the caller's value, else
\* true exactly when a navigation step was in the list as the navigation
\* began, else unset; the caller's object is not changed; timespan and
\* snapshot flags go through unchanged.
C8_NavigationFlags ==
  /\ \A c \in CallIds :
       /\ calls[c].callerFlags = calls[c].stepFlags
       /\ calls[c].begunAt <= Len(gatherSteps)
       /\ (calls[c].op \in NavigationOps /\ calls[c].gatherer # "none") =>
            calls[c].flags = ExpectedNavigationFlags(calls[c].stepFlags, calls[c].begunAt)
       /\ (calls[c].op \in {"startTimespan", "snapshot"} /\ calls[c].gatherer # "none") =>
            calls[c].flags = calls[c].stepFlags
  /\ \A i \in 1..Len(gatherSteps) :
       LET step == gatherSteps[i]
       IN  IF step.gatherMode = "navigation"
             THEN step.stepFlags = calls[step.call].flags
             ELSE step.stepFlags = calls[step.call].stepFlags

\* A second navigation whose disableStorageReset was defaulted to true, after
\* a first one that left it unset.
C8_Witness ==
  \E i, j \in 1..Len(gatherSteps) :
    /\ i < j
    /\ gatherSteps[i].gatherMode = "navigation"
    /\ gatherSteps[i].stepFlags.disableStorageReset = UNDEF
    /\ gatherSteps[j].gatherMode = "navigation"
    /\ calls[gatherSteps[j].call].stepFlags.disableStorageReset = UNDEF
    /\ gatherSteps[j].stepFlags.disableStorageReset = "true"
    /\ gatherSteps[j].stepFlags.skipAboutBlank = "false"

\* C9: the step list is append-only: each value of it is a prefix of the next.
C9_StepsAppendOnly ==
  [][IsPrefix(gatherSteps, gatherSteps')]_vars

\* A step in the list, and an operation called after it was added that
\* failed in its gatherer.
C9_Witness ==
  /\ Len(gatherSteps) = 1
  /\ \E c \in CallIds :
       /\ calls[c].pc = "rejected"
       /\ calls[c].error = "GatherFailure"
       /\ calls[c].begunAt >= 1

\* C10: a snapshot() that succeeded has added exactly one step, of gather mode
\* snapshot, a snapshot that has not succeeded none; and no step of a snapshot
\* task, its call included, changes currentNavigation or currentTimespan.
C10_SnapshotAddsOneStep ==
  [][ /\ \A c \in 1..Len(calls') :
           calls'[c].op = "snapshot" =>
             LET added == {i \in 1..Len(gatherSteps') : gatherSteps'[i].call = c}
             IN  /\ Cardinality(added) = IF calls'[c].pc = "resolved" THEN 1 ELSE 0
                 /\ \A i \in added : gatherSteps'[i].gatherMode = "snapshot"
      /\ ( \/ IsCall /\ calls'[Len(calls')].op = "snapshot"
           \/ \E c \in CallIds : calls[c].op = "snapshot" /\ calls'[c] # calls[c] )
         => /\ currentNavigation' = currentNavigation
            /\ currentTimespan' = currentTimespan ]_vars

\* A snapshot that succeeded next to one whose gatherer failed.
C10_Witness ==
  /\ \E c \in CallIds :
       calls[c].op = "snapshot" /\ calls[c].pc = "resolved" /\ StepsOf(c) # {}
  /\ \E c \in CallIds :
       calls[c].op = "snapshot" /\ calls[c].error = "GatherFailure"

\* C11: a slot that is set is cleared only by the matching end operation
\* (currentTimespan by an endTimespan that completes, currentNavigation by an
\* endNavigation that completes), and every navigate, startTimespan, snapshot
\* and non-matching end call made while it is set is rejected.
C11_SlotSetUntilMatchingEnd ==
  [][ /\ (currentTimespan # NoTimespan /\ currentTimespan' = NoTimespan) =>
           \E e \in CallIds :
             /\ calls[e].op = "endTimespan"
             /\ calls[e].pc = "gather"
             /\ calls'[e].pc = "resolved"
      /\ (currentNavigation # NoNavigation /\ currentNavigation' = NoNavigation) =>
           \E e \in CallIds :
             /\ calls[e].op = "endNavigation"
             /\ calls[e].pc = "awaitResult"
             /\ calls'[e].pc = "resolved"
      /\ ( /\ IsCall
           /\ currentTimespan # NoTimespan
           /\ calls'[Len(calls')].op \in
                {"navigate", "startTimespan", "snapshot", "endNavigation"} )
         => calls'[Len(calls')].pc = "rejected"
      /\ ( /\ IsCall
           /\ currentNavigation # NoNavigation
           /\ calls'[Len(calls')].op \in
                {"navigate", "startTimespan", "snapshot", "endTimespan"} )
         => calls'[Len(calls')].pc = "rejected" ]_vars

\* A timespan still active after an endNavigation called on it was rejected.
C11_Witness ==
  /\ currentTimespan # NoTimespan
  /\ \E c \in CallIds :
       /\ calls[c].op = "endNavigation"
       /\ calls[c].pc = "rejected"
       /\ calls[c].error = "Timespan already in progress"

\* C12: a precondition failure raised while a slot is set names the active
\* operation: the timespan when a timespan is active, the navigation when a
\* navigation and no timespan is active.
C12_ErrorNamesActiveOperation ==
  [][ ( /\ IsCall
        /\ calls'[Len(calls')].op \in
             {"navigate", "startTimespan", "snapshot", "endNavigation", "endTimespan"}
        /\ calls'[Len(calls')].error \in PreconditionErrors )
      => /\ currentTimespan # NoTimespan =>
              calls'[Len(calls')].error = "Timespan already in progress"
         /\ (currentTimespan = NoTimespan /\ currentNavigation # NoNavigation) =>
              calls'[Len(calls')].error = "Navigation already in progress" ]_vars

\* C17: every failure of the navigate() of a handshake is surfaced by exactly
\* one of startNavigation (navigationSetupPromise rejected) and endNavigation
\* (navigationResultPromise rejected, the handle being installed), and no
\* endNavigation resolves for a handshake whose navigate() failed.
C17_FailureSurfacedExactlyOnce ==
  /\ \A c \in CallIds :
       ( /\ calls[c].op = "startNavigation"
         /\ calls[c].nav = "threw"
         /\ calls[c].result # "pending" )
       => \/ calls[c].setup = "rejected" /\ calls[c].result = "resolved"
          \/ calls[c].setup = "resolved" /\ calls[c].result = "rejected"
  /\ \A e \in CallIds :
       (calls[e].op = "endNavigation" /\ calls[e].pc = "resolved") =>
         calls[calls[e].target].nav # "threw"

\* C18: the step in which a completing endTimespan clears currentTimespan is
\* the step in which it appends the timespan's step: no state has the slot
\* cleared by it with the step missing, or the step in the list with its
\* timespan still in the slot.
C18_ClearAndAppendTogether ==
  [][ /\ (currentTimespan # NoTimespan /\ currentTimespan' = NoTimespan) =>
           /\ Len(gatherSteps') = Len(gatherSteps) + 1
           /\ gatherSteps'[Len(gatherSteps')].gatherMode = "timespan"
      /\ ( /\ Len(gatherSteps') = Len(gatherSteps) + 1
           /\ gatherSteps'[Len(gatherSteps')].gatherMode = "timespan" )
         => currentTimespan' = NoTimespan
      /\ \A i \in 1..Len(gatherSteps') :
           gatherSteps'[i].gatherMode = "timespan" =>
             currentTimespan'.timespan # gatherSteps'[i].call ]_vars

\* A timespan ended: its step in the list and the slot cleared.
C18_Witness ==
  /\ currentTimespan = NoTimespan
  /\ \E e \in CallIds :
       /\ calls[e].op = "endTimespan"
       /\ calls[e].pc = "resolved"
       /\ \E i \in StepsOf(calls[e].target) : gatherSteps[i].gatherMode = "timespan"

\* C19: a started timespan produces at most one step: the timespan steps in
\* the list are never more than the startTimespan calls that succeeded, and
\* endTimespanGather is invoked at most once on a timespan.
C19_OneStepPerTimespan ==
  /\ Cardinality({i \in 1..Len(gatherSteps) : gatherSteps[i].gatherMode = "timespan"})
       <= Cardinality({c \in CallIds :
                         calls[c].op = "startTimespan" /\ calls[c].pc = "resolved"})
  /\ \A t \in CallIds :
       Cardinality({e \in CallIds : /\ calls[e].op = "endTimespan"
                                    /\ calls[e].target = t
                                    /\ calls[e].gatherer # "none"}) <= 1

\* The label of a gather mode in a default step name.
ModeLabel(mode) ==
  CASE mode = "navigation" -> "Navigation"
    [] mode = "timespan" -> "Timespan"
    [] mode = "snapshot" -> "Snapshot"

\* The name of a step: its stepFlags name unless that is one of notGiven,
\* else the mode label with host and path of the step's URL.
ExpectedStepName(gatherStep, notGiven) ==
  IF gatherStep.stepFlags.defined /\ gatherStep.stepFlags.name \notin notGiven
    THEN gatherStep.stepFlags.name
    ELSE ModeLabel(gatherStep.gatherMode) \o " report ("
           \o gatherStep.url.hostname \o gatherStep.url.pathname \o ")"

\* The output so far holds, in input order, one entry per step scored with a
\* result, and on return one entry per input step.
OutputInOrder(notGiven) ==
  /\ Len(audit.steps) <= Len(audit.gatherSteps)
  /\ audit.pc = "resolved" => Len(audit.steps) = Len(audit.gatherSteps)
  /\ \A i \in 1..Len(audit.steps) :
       /\ audit.steps[i].lhr = [step |-> i]
       /\ audit.steps[i].name = ExpectedStepName(audit.gatherSteps[i], notGiven)

\* Runner options are recorded for the i-th step of the audited list.
Recorded(i) ==
  /\ audit.options.gatherStepRunnerOptions.defined
  /\ i \in audit.options.gatherStepRunnerOptions.steps

\* C13: auditGatherSteps on an empty list fails with the empty-flow error and
\* has called neither initializeConfig nor Runner.audit.
C13_EmptyFlowRejected ==
  (Len(audit.gatherSteps) = 0 /\ audit.pc \notin {"none", "called"}) =>
    /\ audit.pc = "rejected"
    /\ audit.error = "Need at least one step before getting the result"
    /\ audit.configCalls = <<>>
    /\ audit.scored = <<>>
    /\ audit.steps = <<>>

C13_Witness ==
  /\ Len(audit.gatherSteps) = 0
  /\ audit.pc = "rejected"
  /\ audit.options.gatherStepRunnerOptions.defined

\* C14 as stated: one output entry per step in input order, holding the
\* scorer's result for the step and the name stepFlags.name whenever a name
\* is given, else the mode label with the shortened URL.
C14_NameIfGiven ==
  OutputInOrder({UNDEF})

\* C14 amended: one output entry per step in input order, holding the
\* scorer's result for the step and the name stepFlags.name if it is given
\* and not the empty string, else the mode label with the shortened URL.
C14_NameIfGivenAndNonEmpty ==
  OutputInOrder({UNDEF, ""})

C14_Witness ==
  /\ audit.pc = "resolved"
  /\ Len(audit.steps) = 2
  /\ audit.steps[1].name = "login"
  /\ audit.steps[2].name = "Timespan report (shop.test/cart)"
  /\ audit.gatherSteps[2].stepFlags.name = ""

\* C15: initializeConfig is called, with the step's gather mode, the flow
\* config and the step's stored flags, for exactly the steps reached whose
\* registry lookup is absent; the other steps are scored with the recorded
\* options; and equal steps get equal names whether or not options were
\* recorded for them.
C15_InitializeConfigWhenAbsent ==
  /\ \A k \in 1..Len(audit.configCalls) :
       LET call == audit.configCalls[k]
       IN  /\ call.step \in 1..Len(audit.gatherSteps)
           /\ ~Recorded(call.step)
           /\ call.gatherMode = audit.gatherSteps[call.step].gatherMode
           /\ call.configJson = audit.options.config
           /\ call.stepFlags = audit.gatherSteps[call.step].stepFlags
           /\ \A l \in 1..Len(audit.configCalls) :
                audit.configCalls[l].step = call.step => l = k
  /\ \A i \in 1..Len(audit.gatherSteps) :
       (i <= audit.i /\ ~Recorded(i)) =>
         \E k \in 1..Len(audit.configCalls) : audit.configCalls[k].step = i
  /\ (audit.pc = "audit") =>
       audit.runnerOptions = IF Recorded(audit.i) THEN "recorded" ELSE "initialized"
  /\ \A i, j \in 1..Len(audit.steps) :
       (audit.gatherSteps[i] = audit.gatherSteps[j]) =>
         audit.steps[i].name = audit.steps[j].name

C15_Witness ==
  /\ audit.pc = "resolved"
  /\ Len(audit.steps) = 2
  /\ audit.gatherSteps[1] = audit.gatherSteps[2]
  /\ Recorded(1)
  /\ ~Recorded(2)
  /\ Len(audit.configCalls) = 1
  /\ audit.steps[1].name = audit.steps[2].name

\* C16: when Runner.audit returns no result for a step, auditGatherSteps is
\* rejected with the error that carries the step's name, returns no flow
\* result, that step is the last one scored, and the steps before it were
\* scored in input order.
C16_NoResultRejects ==
  \A k \in 1..Len(audit.results) :
    audit.results[k] = "none" =>
      /\ audit.pc = "rejected"
      /\ audit.error = "Step \""
                         \o ExpectedStepName(audit.gatherSteps[k], {UNDEF, ""})
                         \o "\" did not return a result"
      /\ audit.flowName = UNDEF
      /\ audit.scored = [n \in 1..k |-> n]
      /\ \A n \in 1..(k - 1) : audit.results[n] = "lhr"
      /\ Len(audit.steps) = k - 1
      /\ \A n \in 1..Len(audit.configCalls) : audit.configCalls[n].step <= k

C16_Witness ==
  /\ Len(audit.gatherSteps) = 2
  /\ audit.results = <<"lhr", "none">>
  /\ audit.pc = "rejected"
  /\ Len(audit.steps) = 1
  /\ audit.error = "Step \"Navigation report (example.com/)\" did not return a result"

\* C20: in every state of a session, runner options are recorded for exactly
\* the steps of the list, so the lookup createFlowResult makes finds options
\* for every step.
C20_EveryStepHasRunnerOptions ==
  /\ gatherStepRunnerOptions = 1..Len(gatherSteps)
  /\ \A i \in 1..Len(gatherSteps) :
       \A name \in AuditNames, config \in AuditConfigs :
         RunnerOptionsLookup(
           CreateFlowResultOptions(name, config, gatherStepRunnerOptions), i)

C20_Witness ==
  /\ Len(gatherSteps) = 2
  /\ gatherStepRunnerOptions = {1, 2}

====
